---- MODULE Spec2Model ----
(***************************************************************************)
(* ContractWrapperBase of h_server/contracts/utils.py: one contract        *)
(* binding, a nonce lock, and the coroutines deploy, _transaction_call,    *)
(* _function_call and wait_for_receipt.  The coroutines run on one event   *)
(* loop: every action below is the code a coroutine runs between two       *)
(* awaits, and the awaited RPC answers at the start of the next action.    *)
(***************************************************************************)
EXTENDS Integers, Sequences, FiniteSets, TLC

\* ---- bounds ----
NReq == 2          \* number of caller requests (coroutine invocations)
BaseNonce == 2     \* pending transaction count of the account at the start

Reqs == 1..NReq

\* Python None / an absent value
None == <<>>

\* the account configured on the session, when there is one
Account == "0xAccount"
\* the address handed to the constructor, when there is one
GivenAddress == <<"0xGiven">>
\* contract method names used by the callers
Methods == {"createTask"}
\* failure messages of the replayed call
Reasons == {"revert: not allowed", "connection reset"}

\* get_default_tx_option(): the process-wide default transaction options
get_default_tx_option == [gas |-> "defaultGas"]
\* the options objects the callers own, by name: one that sets nonce and from,
\* one that sets neither
CallerOptions ==
  [full |-> [nonce |-> BaseNonce + NReq, from |-> "0xCaller"],
   plain |-> [gasPrice |-> "callerGasPrice"]]
\* what a caller passes as option: None, or <<name>> of one of its objects
OptionInputs == {None} \cup {<<n>> : n \in DOMAIN CallerOptions}

\* dict item assignment d[k] = v
SetItem(d, k, v) == [x \in DOMAIN d \cup {k} |-> IF x = k THEN v ELSE d[x]]

\* an exception raised to the caller; kind "" is a normal return; reason is
\* None or <<message>>
Err(k, m, reason) == [kind |-> k, method |-> m, reason |-> reason]
NoError == Err("", "", None)
\* the AssertionError of deploy's first assert ("Contract has been deployed")
AlreadyDeployedError == Err("AlreadyDeployedError", "", None)
\* the AssertionError of the contract property ("Contract has not been deployed")
NotDeployedError == Err("NotDeployedError", "", None)
\* the AssertionError "The default account is empty."
NoDefaultAccountError == Err("NoDefaultAccountError", "", None)
\* the AssertionError "Deployed contract address is None"
DeploymentAddressMissingError == Err("DeploymentAddressMissingError", "", None)
\* TimeExhausted of w3.eth.wait_for_transaction_receipt
ReceiptTimeoutError == Err("ReceiptTimeoutError", "", None)
\* an exception of the RPC session, propagated unmodified
TransportError == Err("TransportError", "", None)
\* None.constructor / None.abi
AttributeError == Err("AttributeError", "", None)
TxRevertedError(m, reason) == Err("TxRevertedError", m, reason)
\* the cancellation exception raised at the await of a cancelled coroutine
CancelledError == Err("CancelledError", "", None)

VARIABLES
  _address,           \* self._address
  _contract,          \* self._contract
  _contract_builder,  \* self._contract_builder
  nonce_lock,         \* self._nonce_lock: the set of requests holding it
  lock_order,         \* the requests that entered the lock, in that order
  default_account,    \* w3.eth.default_account ("" when not configured)
  txCount,            \* the session's pending transaction count of the account
  submitted,          \* transactions the session accepted, in order
  kind,               \* per request: "", "deploy", "call", "read"
  pc,                 \* per request: the await it is suspended at
  method,             \* per request: the method tag
  objects,            \* the options objects outside the coroutines, by name:
                      \* the callers' ones and "default", the process-wide one
  option,             \* per request: the option argument (None or <<name>>)
  opt,                \* per request: the private copy being filled
  tx_hash,            \* per request: hash of its submitted transaction
  receipt,            \* per request: the receipt it obtained
  err                 \* per request: the exception it raised, once done

vars == <<_address, _contract, _contract_builder, nonce_lock, lock_order, default_account,
          txCount, submitted, kind, pc, method, objects, option, opt, tx_hash,
          receipt, err>>

binding == <<_address, _contract, _contract_builder>>
session == <<txCount, submitted>>

\* w3.eth.contract(address=a, abi=abi)
Contract(a) == <<"contract", a>>
\* w3.eth.contract(abi=abi, bytecode=bytecode)
Builder == <<"builder">>
\* hash of the n-th accepted transaction
HashOf(n) == <<"tx", n>>
\* the address a contract-creation transaction deploys to
AddressOf(h) == <<"0xContract", h>>

\* the options objects before any call: the callers' ones and the default one
InitialObjects ==
  [n \in DOMAIN CallerOptions \cup {"default"} |->
     IF n = "default" THEN get_default_tx_option ELSE CallerOptions[n]]

\* ContractWrapperBase.__init__
Init ==
  /\ \E contract_address \in {None, GivenAddress} :
       /\ _address = contract_address
       /\ IF contract_address # None
            THEN _contract = Contract(contract_address) /\ _contract_builder = None
            ELSE _contract = None /\ _contract_builder = Builder
  /\ nonce_lock = {}
  /\ lock_order = <<>>
  /\ default_account \in {"", Account}
  /\ txCount = BaseNonce
  /\ submitted = <<>>
  /\ kind = [r \in Reqs |-> ""]
  /\ pc = [r \in Reqs |-> "idle"]
  /\ method = [r \in Reqs |-> ""]
  /\ objects = InitialObjects
  /\ option = [r \in Reqs |-> None]
  /\ opt = [r \in Reqs |-> None]
  /\ tx_hash = [r \in Reqs |-> None]
  /\ receipt = [r \in Reqs |-> None]
  /\ err = [r \in Reqs |-> NoError]

\* requests are numbered in the order they are invoked
CanInvoke(r) == pc[r] = "idle" /\ (IF r = 1 THEN TRUE ELSE pc[r - 1] # "idle")

\* the coroutine ends, and its locals with it: normal return when e = NoError,
\* raise otherwise
Finish(r, e) ==
  /\ pc' = [pc EXCEPT ![r] = "done"]
  /\ err' = [err EXCEPT ![r] = e]
  /\ option' = [option EXCEPT ![r] = None]
  /\ opt' = [opt EXCEPT ![r] = None]
  /\ receipt' = [receipt EXCEPT ![r] = None]

\* the coroutine suspends at an await with options o and receipt rc
Goto(r, label, o, rc) ==
  /\ pc' = [pc EXCEPT ![r] = label]
  /\ opt' = [opt EXCEPT ![r] = o]
  /\ receipt' = [receipt EXCEPT ![r] = rc]
  /\ UNCHANGED err

\* the same, past the first await: the option argument is as it was
Stay(r, label, o, rc) == Goto(r, label, o, rc) /\ UNCHANGED option

\* faulty variant of LockFree: the lock excludes nobody
LockFreeAlways == TRUE
\* async with self._nonce_lock: the lock can be entered
LockFree == nonce_lock = {}
\* faulty variant of Held: entering the lock does not take it
HeldNot(l, r) == l
\* async with self._nonce_lock: the lock after r entered it
Held(l, r) == l \cup {r}
\* faulty variant of Released: the lock is kept when the block is left
ReleasedNot(l, r) == l
\* async with self._nonce_lock: the lock after r left it, normally or by exception
Released(l, r) == l \ {r}

\* faulty variant of DeployAssert: the assert is stripped
DeployAssertStripped == TRUE
\* deploy's assert: self._contract is None and self._contract_builder is not None
DeployAssert == _contract = None /\ _contract_builder # None
\* faulty variant of HasDefaultAccount: the assert is stripped
HasDefaultAccountStripped == TRUE
\* the assert on the account: self.w3.eth.default_account is truthy
HasDefaultAccount == default_account # ""
\* faulty variant of HasContract: the assert is stripped
HasContractStripped == TRUE
\* the assert of the contract property: self._contract is not None
HasContract == _contract # None

\* the object the option argument in stands for: the default one when None
OptionObject(in) == IF in = None THEN "default" ELSE in[1]

\* faulty variant of ResolveOption: the caller's options are laid over the defaults
ResolveOptionMerged(in) ==
  IF in = None
    THEN objects["default"]
    ELSE [k \in DOMAIN objects["default"] \cup DOMAIN objects[in[1]] |->
            IF k \in DOMAIN objects[in[1]] THEN objects[in[1]][k]
                                           ELSE objects["default"][k]]
\* option = kwargs.pop("option", None); the default when None; option.copy()
ResolveOption(in) == objects[OptionObject(in)]

\* faulty variant of ObjectsAfterWrite: no copy, the coroutine writes into the
\* object it was given
ObjectsAfterWriteAliased(in, o) == [objects EXCEPT ![OptionObject(in)] = o]
\* the objects outside the coroutine after it stored items into its options,
\* which are then o: it writes into its copy, so they stay as they are
ObjectsAfterWrite(in, o) == objects

\* the nonce of a transaction of operation k invoked with the option argument
\* in comes from get_transaction_count
FetchesNonce(k, in) ==
  \/ k = "call"
  \/ k = "deploy" /\ "nonce" \notin DOMAIN ResolveOption(in)

\* ---------------------------------------------------------------- deploy

\* deploy: the assert on the binding, and the private copy of the options
Deploy(r, in) ==
  /\ CanInvoke(r)
  /\ kind' = [kind EXCEPT ![r] = "deploy"]
  /\ method' = [method EXCEPT ![r] = "deploy"]
  /\ IF ~DeployAssert
       THEN Finish(r, AlreadyDeployedError)
       ELSE /\ option' = [option EXCEPT ![r] = in]
            /\ Goto(r, "lock", ResolveOption(in), None)
  /\ UNCHANGED <<binding, nonce_lock, lock_order, default_account, session,
                 objects, tx_hash>>

\* deploy inside the lock, from the "from" fill to the await of transact;
\* o is the options so far and l the lock with r inside
DeployTransact(r, o, l) ==
  LET o2 == IF "from" \notin DOMAIN o THEN SetItem(o, "from", default_account) ELSE o
  IN /\ objects' = IF o2 = opt[r] THEN objects ELSE ObjectsAfterWrite(option[r], o2)
     /\ IF _contract_builder = None
          THEN Finish(r, AttributeError) /\ nonce_lock' = Released(l, r)
          ELSE Stay(r, "submitting", o2, None) /\ nonce_lock' = l

\* deploy enters the lock: the account assert, then the nonce fetch is awaited
DeployLocked(r) ==
  /\ pc[r] = "lock" /\ kind[r] = "deploy"
  /\ LockFree
  /\ lock_order' = Append(lock_order, r)
  /\ IF ~HasDefaultAccount
       THEN /\ Finish(r, NoDefaultAccountError)
            /\ nonce_lock' = Released(Held(nonce_lock, r), r)
            /\ UNCHANGED objects
       ELSE IF "nonce" \notin DOMAIN opt[r]
         THEN /\ Stay(r, "fetching", opt[r], None)
              /\ nonce_lock' = Held(nonce_lock, r)
              /\ UNCHANGED objects
         ELSE DeployTransact(r, opt[r], Held(nonce_lock, r))
  /\ UNCHANGED <<binding, default_account, session, kind, method, tx_hash>>

\* get_transaction_count answers deploy
DeployNonce(r) ==
  /\ pc[r] = "fetching" /\ kind[r] = "deploy"
  /\ \/ DeployTransact(r, SetItem(opt[r], "nonce", txCount), nonce_lock)
     \/ /\ Finish(r, TransportError)
        /\ nonce_lock' = Released(nonce_lock, r)
        /\ UNCHANGED objects
  /\ UNCHANGED <<binding, lock_order, default_account, session, kind, method, tx_hash>>

\* the session takes the transaction r sent: one more pending transaction
SessionAccepts(r) ==
  /\ submitted' = Append(submitted, [req |-> r, option |-> option[r], tx |-> opt[r]])
  /\ txCount' = txCount + 1

\* the session accepts the transaction r awaits and answers with its hash
Accept(r) ==
  /\ SessionAccepts(r)
  /\ tx_hash' = [tx_hash EXCEPT ![r] = HashOf(Len(submitted) + 1)]

\* faulty variant of DeploySubmitted: wait_for_receipt is called inside the
\* async with block, the lock is kept
DeploySubmittedKeepsLock(r) ==
  /\ pc[r] = "submitting" /\ kind[r] = "deploy"
  /\ \/ /\ Accept(r)
        /\ Stay(r, "waiting", opt[r], None)
        /\ UNCHANGED nonce_lock
     \/ /\ Finish(r, TransportError)
        /\ nonce_lock' = Released(nonce_lock, r)
        /\ UNCHANGED <<session, tx_hash>>
  /\ UNCHANGED <<binding, lock_order, default_account, kind, method, objects>>

\* transact answers deploy: the lock is left, wait_for_receipt starts
DeploySubmitted(r) ==
  /\ pc[r] = "submitting" /\ kind[r] = "deploy"
  /\ \/ /\ Accept(r)
        /\ Stay(r, "waiting", opt[r], None)
     \/ /\ Finish(r, TransportError)
        /\ UNCHANGED <<session, tx_hash>>
  /\ nonce_lock' = Released(nonce_lock, r)
  /\ UNCHANGED <<binding, lock_order, default_account, kind, method, objects>>

\* faulty variant of DeployBind: the builder is kept after the binding
DeployBindKeepsBuilder(r, rc) ==
  LET address == rc.contractAddress
  IN IF address = None
       THEN Finish(r, DeploymentAddressMissingError) /\ UNCHANGED binding
       ELSE /\ _address' = address
            /\ _contract' = Contract(address)
            /\ UNCHANGED _contract_builder
            /\ Finish(r, NoError)

\* deploy after wait_for_receipt returned rc: the binding becomes Deployed
DeployBind(r, rc) ==
  LET address == rc.contractAddress
  IN IF address = None
       THEN Finish(r, DeploymentAddressMissingError) /\ UNCHANGED binding
       ELSE /\ _address' = address
            /\ IF _contract_builder = None
                 THEN Finish(r, AttributeError)
                      /\ UNCHANGED <<_contract, _contract_builder>>
                 ELSE /\ _contract' = Contract(address)
                      /\ _contract_builder' = None
                      /\ Finish(r, NoError)

\* ---------------------------------------------------------------- _transaction_call

\* _transaction_call: the private copy of the options
TransactionCall(r, m, in) ==
  /\ CanInvoke(r)
  /\ kind' = [kind EXCEPT ![r] = "call"]
  /\ method' = [method EXCEPT ![r] = m]
  /\ option' = [option EXCEPT ![r] = in]
  /\ Goto(r, "lock", ResolveOption(in), None)
  /\ UNCHANGED <<binding, nonce_lock, lock_order, default_account, session,
                 objects, tx_hash>>

\* _transaction_call enters the lock: account assert, "from", the nonce fetch is awaited
CallLocked(r) ==
  /\ pc[r] = "lock" /\ kind[r] = "call"
  /\ LockFree
  /\ lock_order' = Append(lock_order, r)
  /\ IF ~HasDefaultAccount
       THEN /\ Finish(r, NoDefaultAccountError)
            /\ nonce_lock' = Released(Held(nonce_lock, r), r)
            /\ UNCHANGED objects
       ELSE LET o == SetItem(opt[r], "from", default_account)
            IN /\ Stay(r, "fetching", o, None)
               /\ objects' = ObjectsAfterWrite(option[r], o)
               /\ nonce_lock' = Held(nonce_lock, r)
  /\ UNCHANGED <<binding, default_account, session, kind, method, tx_hash>>

\* get_transaction_count answers _transaction_call: nonce, the contract property, transact
CallNonce(r) ==
  /\ pc[r] = "fetching" /\ kind[r] = "call"
  /\ \/ LET o == SetItem(opt[r], "nonce", txCount)
        IN /\ objects' = ObjectsAfterWrite(option[r], o)
           /\ IF ~HasContract
                THEN Finish(r, NotDeployedError) /\ nonce_lock' = Released(nonce_lock, r)
                ELSE Stay(r, "submitting", o, None) /\ UNCHANGED nonce_lock
     \/ /\ Finish(r, TransportError)
        /\ nonce_lock' = Released(nonce_lock, r)
        /\ UNCHANGED objects
  /\ UNCHANGED <<binding, lock_order, default_account, session, kind, method, tx_hash>>

\* transact answers _transaction_call: the lock is left, wait_for_receipt starts
CallSubmitted(r) ==
  /\ pc[r] = "submitting" /\ kind[r] = "call"
  /\ \/ /\ Accept(r)
        /\ Stay(r, "waiting", opt[r], None)
     \/ /\ Finish(r, TransportError)
        /\ UNCHANGED <<session, tx_hash>>
  /\ nonce_lock' = Released(nonce_lock, r)
  /\ UNCHANGED <<binding, lock_order, default_account, kind, method, objects>>

\* ---------------------------------------------------------------- wait_for_receipt

\* wait_for_receipt returns rc to its caller, which goes on
ReturnReceipt(r, rc) ==
  IF kind[r] = "deploy"
    THEN DeployBind(r, rc)
    ELSE Finish(r, NoError) /\ UNCHANGED binding

\* the contractAddress a receipt of r's transaction can carry
ContractAddresses(r) ==
  IF kind[r] = "deploy" THEN {None, AddressOf(tx_hash[r])} ELSE {None}

\* wait_for_transaction_receipt answers: timeout, or a receipt and its status test
ReceiptReturned(r) ==
  /\ pc[r] = "waiting"
  /\ \/ /\ Finish(r, ReceiptTimeoutError)
        /\ UNCHANGED binding
     \/ \E status \in {0, 1}, ca \in ContractAddresses(r) :
          LET rc == [status |-> status, contractAddress |-> ca]
          IN IF status = 0
               THEN Stay(r, "gettx", opt[r], rc) /\ UNCHANGED binding
               ELSE ReturnReceipt(r, rc)
  /\ UNCHANGED <<nonce_lock, lock_order, default_account, session, kind, method,
                 objects, tx_hash>>

\* get_transaction answers: the replay call is awaited
GetTransactionReturned(r) ==
  /\ pc[r] = "gettx"
  /\ \/ Stay(r, "replay", opt[r], receipt[r])
     \/ Finish(r, TransportError)
  /\ UNCHANGED <<binding, nonce_lock, lock_order, default_account, session, kind,
                 method, objects, tx_hash>>

\* the replayed call answers: it raised with message reason, or it returned
ReplayReturned(r) ==
  /\ pc[r] = "replay"
  /\ \/ /\ \E e \in Reasons : Finish(r, TxRevertedError(method[r], <<e>>))
        /\ UNCHANGED binding
     \/ ReturnReceipt(r, receipt[r])
  /\ UNCHANGED <<nonce_lock, lock_order, default_account, session, kind, method,
                 objects, tx_hash>>

\* ---------------------------------------------------------------- _function_call

\* faulty variant of FunctionCall: the read-only call enters the nonce lock
FunctionCallLocked(r, m) ==
  /\ CanInvoke(r)
  /\ LockFree
  /\ kind' = [kind EXCEPT ![r] = "read"]
  /\ method' = [method EXCEPT ![r] = m]
  /\ nonce_lock' = Held(nonce_lock, r)
  /\ IF ~HasDefaultAccount
       THEN Finish(r, NoDefaultAccountError)
       ELSE IF ~HasContract
         THEN Finish(r, NotDeployedError)
         ELSE Stay(r, "calling", [from |-> default_account], None)
  /\ UNCHANGED <<binding, lock_order, default_account, session, objects,
                 tx_hash>>

\* _function_call: account assert, the contract property, the call is awaited
FunctionCall(r, m) ==
  /\ CanInvoke(r)
  /\ kind' = [kind EXCEPT ![r] = "read"]
  /\ method' = [method EXCEPT ![r] = m]
  /\ IF ~HasDefaultAccount
       THEN Finish(r, NoDefaultAccountError)
       ELSE IF ~HasContract
         THEN Finish(r, NotDeployedError)
         ELSE Stay(r, "calling", [from |-> default_account], None)
  /\ UNCHANGED <<binding, nonce_lock, lock_order, default_account, session,
                 objects, tx_hash>>

\* the read-only call answers: a value, or an exception of the session
FunctionCallReturned(r) ==
  /\ pc[r] = "calling"
  /\ \/ Finish(r, NoError)
     \/ Finish(r, TransportError)
  /\ UNCHANGED <<binding, nonce_lock, lock_order, default_account, session, kind,
                 method, objects, tx_hash>>

\* ---------------------------------------------------------------- cancellation

\* the awaits a coroutine can be cancelled at
Awaits == {"lock", "fetching", "submitting", "waiting", "gettx", "replay", "calling"}

\* the caller cancels r at its await: the exception leaves the async with block
\* when r is in it; a transaction already sent may still reach the session
Cancel(r) ==
  /\ pc[r] \in Awaits
  /\ Finish(r, CancelledError)
  /\ nonce_lock' = Released(nonce_lock, r)
  /\ \/ UNCHANGED session
     \/ pc[r] = "submitting" /\ SessionAccepts(r)
  /\ UNCHANGED <<binding, lock_order, default_account, kind, method, objects, tx_hash>>

\* ----------------------------------------------------------------

\* r's coroutine goes on from its await once the awaited call has answered
Resume(r) ==
  \/ DeployLocked(r)
  \/ DeployNonce(r)
  \/ DeploySubmitted(r)
  \/ CallLocked(r)
  \/ CallNonce(r)
  \/ CallSubmitted(r)
  \/ ReceiptReturned(r)
  \/ GetTransactionReturned(r)
  \/ ReplayReturned(r)
  \/ FunctionCallReturned(r)

Next ==
  \/ \E r \in Reqs, in \in OptionInputs : Deploy(r, in)
  \/ \E r \in Reqs : DeployLocked(r)
  \/ \E r \in Reqs : DeployNonce(r)
  \/ \E r \in Reqs : DeploySubmitted(r)
  \/ \E r \in Reqs, m \in Methods, in \in OptionInputs : TransactionCall(r, m, in)
  \/ \E r \in Reqs : CallLocked(r)
  \/ \E r \in Reqs : CallNonce(r)
  \/ \E r \in Reqs : CallSubmitted(r)
  \/ \E r \in Reqs : ReceiptReturned(r)
  \/ \E r \in Reqs : GetTransactionReturned(r)
  \/ \E r \in Reqs : ReplayReturned(r)
  \/ \E r \in Reqs, m \in Methods : FunctionCall(r, m)
  \/ \E r \in Reqs : FunctionCallReturned(r)
  \/ \E r \in Reqs : Cancel(r)

Spec == Init /\ [][Next]_vars

\* the event loop runs every coroutine whose awaited call has answered, every
\* RPC call answers or fails, and a free lock is handed to a waiting coroutine
FairSpec == Spec /\ \A r \in Reqs : WF_vars(Resume(r))

\* ---------------------------------------------------------------- properties

Deployed == _contract # None
Undeployed == _contract = None
\* r is between its entry into the lock and its exit from it
InSection(r) == pc[r] \in {"fetching", "submitting"}
\* r is inside wait_for_receipt
InReceiptWait(r) == pc[r] \in {"waiting", "gettx", "replay"}
\* the nonces of the accepted transactions
SubmittedNonces == {submitted[i].tx["nonce"] : i \in 1..Len(submitted)}
AllNoncesFetched ==
  \A i \in 1..Len(submitted) :
    FetchesNonce(kind[submitted[i].req], submitted[i].option)

\* C1: when every accepted transaction carries a nonce the coordinator fetched,
\* the nonces of the N accepted transactions are exactly
\* BaseNonce .. BaseNonce+N-1, N distinct values: no duplicate and no gap.
C1_NoncesExact ==
  AllNoncesFetched =>
    /\ SubmittedNonces = BaseNonce..(BaseNonce + Len(submitted) - 1)
    /\ Cardinality(SubmittedNonces) = Len(submitted)

\* two requests were outstanding together and both submitted with fetched nonces
C1_Witness ==
  /\ AllNoncesFetched
  /\ \E r1, r2 \in Reqs : r1 # r2 /\ pc[r1] = "waiting" /\ pc[r2] = "waiting"

\* C2: at most one request is inside the nonce-fetch-then-submit section, and
\* it is the one holder of the lock.
C2_OneInSection ==
  /\ Cardinality({r \in Reqs : InSection(r)}) <= 1
  /\ Cardinality(nonce_lock) <= 1
  /\ \A r \in Reqs : InSection(r) <=> r \in nonce_lock

\* one request is inside the section while another one wants to enter
C2_Witness ==
  \E r1, r2 \in Reqs : InSection(r1) /\ pc[r1] = "submitting" /\ pc[r2] = "lock"

\* C3: a request inside wait_for_receipt (polling, fetching the failed
\* transaction, replaying it) does not hold the lock.
C3_NoLockWhileWaiting ==
  \A r \in Reqs : InReceiptWait(r) => r \notin nonce_lock

\* while one request waits for its receipt another one is inside the lock
\* with its nonce fetched
C3_Witness ==
  \E r1, r2 \in Reqs : InReceiptWait(r1) /\ r2 \in nonce_lock /\ pc[r2] = "submitting"

\* C4 (as claimed): once an address is bound it is never written again, and
\* the binding never returns to Undeployed.
C4_BoundOnce ==
  [][/\ _address # None => _address' = _address
     /\ Deployed => Deployed']_vars

\* C5: exactly one of the bound contract and the contract builder is present.
C5_ExactlyOneForm ==
  (_contract = None) # (_contract_builder = None)

\* a deploy has bound the contract
C5_Witness ==
  \E r \in Reqs : kind[r] = "deploy" /\ pc[r] = "done" /\ err[r] = NoError
                  /\ _contract # None /\ _contract_builder = None

\* C6: deploy invoked on a Deployed binding fails at once with
\* AlreadyDeployedError; it does not enter the lock, fetch a nonce or submit.
C6_DeployOnDeployedFails ==
  [][\A r \in Reqs :
       (pc[r] = "idle" /\ kind'[r] = "deploy" /\ Deployed) =>
         /\ pc'[r] = "done"
         /\ err'[r] = AlreadyDeployedError
         /\ tx_hash'[r] = None
         /\ UNCHANGED <<nonce_lock, session, binding>>]_vars

\* a deploy was refused on a binding that a deploy of this run had bound
C6_Witness ==
  \E r1, r2 \in Reqs :
    /\ kind[r1] = "deploy" /\ pc[r1] = "done" /\ err[r1] = NoError
    /\ kind[r2] = "deploy" /\ pc[r2] = "done" /\ err[r2] = AlreadyDeployedError

\* r ran to its end, uncancelled, on a binding that has been Undeployed during
\* the whole call
CallOnUndeployed(r) ==
  /\ kind[r] \in {"call", "read"} /\ pc[r] = "done" /\ Undeployed
  /\ err[r] # CancelledError

\* C7 (as claimed): a mutating or read-only call on an Undeployed binding
\* fails with NotDeployedError whatever the default account, and submits nothing.
C7_AlwaysNotDeployedError ==
  \A r \in Reqs : CallOnUndeployed(r) => err[r] = NotDeployedError /\ tx_hash[r] = None

\* C7 (amended): a mutating or read-only call never has a transaction or a
\* read-only invocation under way while the binding is Undeployed, and on a
\* binding that stays Undeployed it fails: with NoDefaultAccountError when no
\* default account is configured, else with NotDeployedError, or, for a
\* mutating call whose nonce fetch failed first, with that failure.
C7_FailsWithoutSubmitting ==
  \A r \in Reqs :
    /\ (kind[r] \in {"call", "read"} /\ Undeployed) =>
         pc[r] \notin {"submitting", "waiting", "gettx", "replay", "calling"}
    /\ CallOnUndeployed(r) =>
         /\ tx_hash[r] = None
         /\ IF default_account = ""
              THEN err[r] = NoDefaultAccountError
              ELSE \/ err[r] = NotDeployedError
                   \/ kind[r] = "call" /\ err[r] = TransportError

\* a mutating call and a read-only call were both refused with NotDeployedError
C7_Witness ==
  \E r1, r2 \in Reqs :
    /\ kind[r1] = "call" /\ CallOnUndeployed(r1) /\ err[r1] = NotDeployedError
    /\ kind[r2] = "read" /\ CallOnUndeployed(r2) /\ err[r2] = NotDeployedError

\* r is a deploy that returned normally
DeployReturned(r) == kind[r] = "deploy" /\ pc[r] = "done" /\ err[r] = NoError

\* C8 (as claimed): once a deploy has returned successfully, the address is
\* the contract address of that deploy's receipt from then on, and every
\* deploy invoked afterwards fails.
C8_AddressSticky ==
  [][\A r \in Reqs :
       DeployReturned(r) =>
         /\ _address' = AddressOf(tx_hash[r])
         /\ \A r2 \in Reqs :
              (pc[r2] = "idle" /\ kind'[r2] = "deploy") =>
                pc'[r2] = "done" /\ err'[r2] # NoError]_vars

\* C9 (as claimed): a deploy that does not succeed (it raises, or its receipt
\* has failure status) leaves address, bound contract and builder as they were.
C9_FailedDeployLeavesBinding ==
  [][\A r \in Reqs :
       (/\ kind'[r] = "deploy" /\ pc[r] # "done" /\ pc'[r] = "done"
        /\ (err'[r] # NoError \/ pc[r] = "replay")) =>
         UNCHANGED binding]_vars

\* C10 (as claimed): with a receipt of failure status, wait_for_receipt ends by
\* raising TxRevertedError tagged with the method, whether the replay raised
\* (its message is the reason) or returned (no reason).
C10_FailureStatusRaises ==
  [][\A r \in Reqs :
       (pc[r] = "replay" /\ pc'[r] # "replay" /\ err'[r] # CancelledError) =>
         err'[r] \in {TxRevertedError(method[r], reason) :
                       reason \in {None} \cup {<<e>> : e \in Reasons}}]_vars

\* the i-th accepted transaction, and the object its option argument stood for
SourceOf(i) == objects[OptionObject(submitted[i].option)]
TxOf(i) == submitted[i].tx

\* C11: deploy and a mutating call leave the caller's options object and the
\* process-wide default options as they were, so two calls given the same
\* object that sets no nonce submit two different fetched nonces.
C11_OptionsNotMutated ==
  /\ objects = InitialObjects
  /\ \A i, j \in 1..Len(submitted) :
       (i # j /\ submitted[i].option = submitted[j].option
        /\ "nonce" \notin DOMAIN InitialObjects[OptionObject(submitted[i].option)])
         => TxOf(i)["nonce"] # TxOf(j)["nonce"]

\* two calls were given the same caller object without nonce, and both submitted
C11_Witness ==
  \E i, j \in 1..Len(submitted) :
    i # j /\ submitted[i].option = <<"plain">> /\ submitted[j].option = <<"plain">>

\* C12 (as claimed): deploy and a mutating call fill nonce and from only when
\* absent: every key of the effective options, nonce and from included, is
\* submitted with the value it had, and an absent from is the default account.
C12_CallerValuesKept ==
  \A i \in 1..Len(submitted) :
    /\ \A k \in DOMAIN SourceOf(i) : k \in DOMAIN TxOf(i) /\ TxOf(i)[k] = SourceOf(i)[k]
    /\ {"nonce", "from"} \subseteq DOMAIN TxOf(i)
    /\ "from" \notin DOMAIN SourceOf(i) => TxOf(i)["from"] = default_account

\* the caller's own options of the i-th accepted transaction: none when it
\* passed no object
CallerSuppliedOf(i) ==
  IF submitted[i].option = None THEN <<>> ELSE objects[submitted[i].option[1]]

\* C13 (as claimed): the submitted options are the caller's laid over the
\* defaults: every default key the caller did not supply is submitted with its
\* default value, every key the caller supplied with the caller's value.
C13_MergedOverDefaults ==
  \A i \in 1..Len(submitted) :
    /\ \A k \in DOMAIN objects["default"] \ DOMAIN CallerSuppliedOf(i) :
         k \in DOMAIN TxOf(i) /\ TxOf(i)[k] = objects["default"][k]
    /\ \A k \in DOMAIN CallerSuppliedOf(i) :
         k \in DOMAIN TxOf(i) /\ TxOf(i)[k] = CallerSuppliedOf(i)[k]

\* C13 (amended): the submitted options come from one source, the caller's
\* object when one is passed and the defaults only when none is: the submitted
\* keys are that source's keys plus nonce and from, and every key of the source
\* other than nonce and from is submitted with the source's value.
C13_OneSource ==
  \A i \in 1..Len(submitted) :
    /\ DOMAIN TxOf(i) = DOMAIN SourceOf(i) \cup {"nonce", "from"}
    /\ \A k \in DOMAIN SourceOf(i) \ {"nonce", "from"} : TxOf(i)[k] = SourceOf(i)[k]

\* a transaction was submitted from a caller object that lacks a default key,
\* and another one from the defaults
C13_Witness ==
  \E i, j \in 1..Len(submitted) :
    /\ submitted[i].option = <<"plain">> /\ "gas" \notin DOMAIN TxOf(i)
    /\ submitted[j].option = None /\ "gas" \in DOMAIN TxOf(j)

\* C14: a step of a read-only call leaves the lock, the order of its entries,
\* the session's pending count and transactions and the binding as they are;
\* the call is never waiting for the lock, inside it or submitting.
C14_ReadTakesNoLock ==
  [][\A r \in Reqs :
       (kind'[r] = "read" /\ pc'[r] # pc[r]) =>
         /\ UNCHANGED <<nonce_lock, lock_order, session, binding>>
         /\ pc'[r] \in {"calling", "done"}
         /\ r \notin nonce_lock'
         /\ tx_hash'[r] = None]_vars

\* a read-only call has returned its value while another request holds the lock
C14_Witness ==
  \E r1, r2 \in Reqs :
    /\ kind[r1] = "read" /\ pc[r1] = "done" /\ err[r1] = NoError
    /\ r2 \in nonce_lock /\ pc[r2] = "submitting"

\* C15: a request waiting for a receipt does not wait forever, and when its
\* wait ends by the timeout it ends with ReceiptTimeoutError, not holding the
\* lock and with the binding as it was.
C15_TimeoutTerminates ==
  /\ \A r \in Reqs : (pc[r] = "waiting") ~> (pc[r] # "waiting")
  /\ [][\A r \in Reqs :
          (pc[r] = "waiting" /\ err'[r] = ReceiptTimeoutError) =>
            /\ pc'[r] = "done"
            /\ r \notin nonce_lock /\ r \notin nonce_lock'
            /\ UNCHANGED <<binding, nonce_lock>>]_vars

\* a deploy ended with ReceiptTimeoutError on a binding still Undeployed
C15_Witness ==
  \E r \in Reqs : kind[r] = "deploy" /\ pc[r] = "done" /\ err[r] = ReceiptTimeoutError
                  /\ tx_hash[r] # None /\ Undeployed

\* C16: with no default account, nothing is fetched, submitted or issued, the
\* lock is free, and a deploy on an Undeployed binding and a mutating or
\* read-only call on a Deployed binding that ran to their end raised
\* NoDefaultAccountError.
C16_NoDefaultAccount ==
  default_account = "" =>
    /\ nonce_lock = {}
    /\ submitted = <<>> /\ txCount = BaseNonce
    /\ \A r \in Reqs :
         /\ pc[r] \in {"idle", "lock", "done"}
         /\ (/\ pc[r] = "done" /\ err[r] # CancelledError
             /\ \/ kind[r] = "deploy" /\ Undeployed
                \/ kind[r] \in {"call", "read"} /\ Deployed)
              => err[r] = NoDefaultAccountError

\* a mutating call and a read-only call on a Deployed binding both raised
\* NoDefaultAccountError
C16_Witness ==
  \E r1, r2 \in Reqs :
    /\ default_account = "" /\ Deployed
    /\ kind[r1] = "call" /\ pc[r1] = "done" /\ err[r1] = NoDefaultAccountError
    /\ kind[r2] = "read" /\ pc[r2] = "done" /\ err[r2] = NoDefaultAccountError

\* the positions of r's accepted transactions whose nonce the coordinator fetched
FetchedTxs(r) ==
  {i \in 1..Len(submitted) :
     submitted[i].req = r /\ FetchesNonce(kind[r], submitted[i].option)}

\* C17: when request A entered the lock before request B and both submitted a
\* transaction with a fetched nonce, A's nonce is strictly smaller than B's.
C17_NonceOrderIsLockOrder ==
  \A a, b \in 1..Len(lock_order) :
    a < b =>
      \A i \in FetchedTxs(lock_order[a]), j \in FetchedTxs(lock_order[b]) :
        TxOf(i)["nonce"] < TxOf(j)["nonce"]

\* the request invoked later entered the lock first, and both submitted
C17_Witness ==
  \E a, b \in 1..Len(lock_order) :
    /\ a < b /\ lock_order[a] > lock_order[b]
    /\ FetchedTxs(lock_order[a]) # {} /\ FetchedTxs(lock_order[b]) # {}

\* C18: the step that cancels a request inside wait_for_receipt finds the lock
\* not held by that request and leaves the lock and the binding as they are.
C18_CancelInWait ==
  [][\A r \in Reqs :
       (InReceiptWait(r) /\ pc'[r] = "done" /\ err'[r] = CancelledError) =>
         /\ r \notin nonce_lock
         /\ UNCHANGED <<nonce_lock, binding>>]_vars

\* a request was cancelled while waiting for its receipt, and another request
\* is inside the lock with its nonce fetched
C18_Witness ==
  \E r1, r2 \in Reqs :
    /\ pc[r1] = "done" /\ err[r1] = CancelledError /\ tx_hash[r1] # None
    /\ r2 \in nonce_lock /\ pc[r2] = "submitting"

\* C19 (as claimed): the address is set exactly when a bound contract exists,
\* and the bound contract is bound to the stored address.
C19_AddressMatchesContract ==
  /\ (_address = None) <=> (_contract = None)
  /\ _contract # None => _contract = Contract(_address)

\* C20: only a request inside the section holds the lock, so every exit from
\* the section has released it, and a request waiting for the lock does not
\* wait forever.
C20_LockReleasedAndAcquired ==
  /\ [](\A r \in Reqs : r \in nonce_lock => InSection(r))
  /\ \A r \in Reqs : (pc[r] = "lock") ~> (pc[r] # "lock")

\* a request failed inside the section without submitting, and a request that
\* entered the lock after it is inside the section
C20_Witness ==
  \E a, b \in 1..Len(lock_order) :
    /\ a < b
    /\ pc[lock_order[a]] = "done" /\ tx_hash[lock_order[a]] = None
    /\ err[lock_order[a]] \in {TransportError, NotDeployedError, AttributeError}
    /\ InSection(lock_order[b])
====
